---- MODULE Spec2Model ----
(***************************************************************************)
(* Model of scripts/load_csv_to_kafka.py: main() loads a CSV file with     *)
(* load_csv() and hands the DataFrame to send_to_kafka(), which produces   *)
(* one message per row, polls / flushes the producer periodically, flushes *)
(* once at the end and reports failed == 0 as its result.                  *)
(*                                                                         *)
(* The producer (confluent_kafka.Producer) is seen through its calls:      *)
(* produce() queues a message or raises, poll(0) serves some of the        *)
(* delivery reports that are due, flush() serves all of them.  Every       *)
(* delivery report is served to the callback given at line 93, which       *)
(* ignores it; ackOk / ackFail record what that callback was called with.  *)
(*                                                                         *)
(* The script polls every 100 rows, flushes every 10000 rows and sets the  *)
(* queue ceiling to 500000 messages.  The loop is parametric in the three  *)
(* numbers; the model runs it with the small values PollEvery, FlushEvery  *)
(* and QueueMax so that every branch of the loop is exercised.             *)
(***************************************************************************)
EXTENDS Integers, Sequences, FiniteSets

\* ---- bounds of the model ----
MaxRows == 8
PollEvery == 2
FlushEvery == 4
QueueMax == 3

VARIABLES
    fileExists,   \* the path given on the command line exists
    nRecords,     \* number of data records in the file
    malformedAt,  \* position of a record pd.read_csv cannot decode, 0 if none
    labelIndex,   \* the DataFrame index holds labels (str) rather than 0..n-1
    pc,           \* position of the process
    exc,          \* exception travelling through main's try block
    exitCode,     \* process exit code, -1 while running
    dfRows,       \* len(df) of the loaded DataFrame, -1 before it is loaded
    producer,     \* "none", "created" or "failed"
    idx,          \* rows taken from df.iterrows() so far (row label + 1)
    successful,
    failed,
    handed,       \* rows handed to producer.produce(), in call order
    enqueued,     \* messages accepted by producer.produce()
    outstanding,  \* messages queued whose delivery report is not yet served
    ackOk,        \* delivery reports served with err = None
    ackFail,      \* delivery reports served with an error
    rowErr,       \* exception raised while handling the current row
    lastOp,       \* last producer call made for the current row
    flushed,      \* the final flush (line 114) has returned
    result        \* return value of send_to_kafka

vars == <<fileExists, nRecords, malformedAt, labelIndex, pc, exc, exitCode,
          dfRows, producer, idx, successful, failed, handed, enqueued,
          outstanding, ackOk, ackFail, rowErr, lastOp, flushed, result>>

input == <<fileExists, nRecords, malformedAt, labelIndex>>
counters == <<idx, successful, failed>>
broker == <<outstanding, ackOk, ackFail>>
mainState == <<exc, exitCode, dfRows, result>>

Range(s) == {s[i] : i \in 1..Len(s)}

Init ==
    /\ fileExists \in BOOLEAN
    /\ nRecords \in 0..MaxRows
    /\ malformedAt \in 0..nRecords
    /\ labelIndex \in BOOLEAN
    /\ (~fileExists => nRecords = 0 /\ ~labelIndex)
    /\ pc = "load"
    /\ exc = "none"
    /\ exitCode = -1
    /\ dfRows = -1
    /\ producer = "none"
    /\ idx = 0
    /\ successful = 0
    /\ failed = 0
    /\ handed = <<>>
    /\ enqueued = 0
    /\ outstanding = 0
    /\ ackOk = 0
    /\ ackFail = 0
    /\ rowErr = "none"
    /\ lastOp = "none"
    /\ flushed = FALSE
    /\ result = "none"

\* ---- load_csv ----

\* Variant of ReadCsv that drops the undecodable record and keeps the rest
\* (what on_bad_lines='skip' would do).
ReadCsvSkipBad(n, bad) == IF bad # 0 THEN n - 1 ELSE n

\* pd.read_csv: the number of rows read, or -1 when the parser raises.
ReadCsv(n, bad) == IF bad # 0 THEN -1 ELSE n

\* Variant of LoadCsv without the exists() check that treats a missing file
\* as an empty DataFrame.
LoadCsvMissingIsEmpty ==
    /\ pc = "load"
    /\ IF fileExists /\ ReadCsv(nRecords, malformedAt) < 0
       THEN /\ exc' = "ValueError"
            /\ pc' = "raised"
            /\ UNCHANGED dfRows
       ELSE /\ dfRows' = IF fileExists THEN ReadCsv(nRecords, malformedAt) ELSE 0
            /\ pc' = "connect"
            /\ UNCHANGED exc
    /\ UNCHANGED <<input, exitCode, producer, counters, handed, enqueued,
                   broker, rowErr, lastOp, flushed, result>>

\* load_csv as called at line 150: raises FileNotFoundError for a missing
\* path, wraps every parser error in ValueError, else returns the DataFrame.
LoadCsv ==
    /\ pc = "load"
    /\ IF ~fileExists
       THEN /\ exc' = "FileNotFoundError"
            /\ pc' = "raised"
            /\ UNCHANGED dfRows
       ELSE IF ReadCsv(nRecords, malformedAt) < 0
       THEN /\ exc' = "ValueError"
            /\ pc' = "raised"
            /\ UNCHANGED dfRows
       ELSE /\ dfRows' = ReadCsv(nRecords, malformedAt)
            /\ pc' = "connect"
            /\ UNCHANGED exc
    /\ UNCHANGED <<input, exitCode, producer, counters, handed, enqueued,
                   broker, rowErr, lastOp, flushed, result>>

\* ---- send_to_kafka ----

\* Producer(producer_config) either succeeds or raises; a raise is logged
\* and send_to_kafka returns False.
CreateProducer ==
    /\ pc = "connect"
    /\ \/ /\ producer' = "created"
          /\ pc' = "loop"
          /\ UNCHANGED result
       \/ /\ producer' = "failed"
          /\ result' = "False"
          /\ pc' = "returned"
    /\ UNCHANGED <<input, exc, exitCode, dfRows, counters, handed, enqueued,
                   broker, rowErr, lastOp, flushed>>

\* for idx, row in df.iterrows(): take the next row or leave the loop.
NextRow ==
    /\ pc = "loop"
    /\ IF idx < dfRows
       THEN /\ idx' = idx + 1
            /\ rowErr' = "none"
            /\ lastOp' = "none"
            /\ pc' = "encode"
       ELSE /\ pc' = "final_flush"
            /\ UNCHANGED <<idx, rowErr, lastOp>>
    /\ UNCHANGED <<input, mainState, producer, successful, failed, handed,
                   enqueued, broker, flushed>>

\* row.to_dict(), json.dumps(..., default=str), .encode('utf-8').
Encode ==
    /\ pc = "encode"
    /\ \/ /\ pc' = "produce"
          /\ UNCHANGED rowErr
       \/ /\ rowErr' = "EncodeError"
          /\ pc' = "except"
    /\ UNCHANGED <<input, mainState, producer, counters, handed, enqueued,
                   broker, lastOp, flushed>>

\* The delivery reports a poll(0) may serve out of n outstanding messages.
PollServed(n) == 0..n

\* flush() without a timeout returns when every outstanding message has been
\* delivered or has failed, and its report has been served.
FlushServed(n) == {n}

\* k delivery reports are served to the callback, j of them with an error.
Serve(k, j) ==
    /\ outstanding' = outstanding - k
    /\ ackOk' = ackOk + (k - j)
    /\ ackFail' = ackFail + j

\* producer.produce(...) followed by successful += 1.  produce raises
\* BufferError when the queue holds queue.buffering.max.messages messages and
\* may raise KafkaException otherwise.
Produce ==
    /\ pc = "produce"
    /\ handed' = Append(handed, idx)
    /\ IF outstanding >= QueueMax
       THEN /\ rowErr' = "BufferError"
            /\ pc' = "except"
            /\ UNCHANGED <<successful, enqueued, outstanding, lastOp>>
       ELSE \/ /\ enqueued' = enqueued + 1
               /\ outstanding' = outstanding + 1
               /\ successful' = successful + 1
               /\ lastOp' = "produce"
               /\ pc' = "poll_check"
               /\ UNCHANGED rowErr
            \/ /\ rowErr' = "KafkaException"
               /\ pc' = "except"
               /\ UNCHANGED <<successful, enqueued, outstanding, lastOp>>
    /\ UNCHANGED <<input, mainState, producer, idx, failed, ackOk, ackFail,
                   flushed>>

\* if (idx + 1) % 100 == 0: producer.poll(0).  idx + 1 raises TypeError when
\* the index label is a string; idx of the model is already label + 1.
PeriodicPoll ==
    /\ pc = "poll_check"
    /\ IF labelIndex
       THEN /\ rowErr' = "TypeError"
            /\ pc' = "except"
            /\ UNCHANGED <<broker, lastOp>>
       ELSE /\ pc' = "flush_check"
            /\ UNCHANGED rowErr
            /\ IF idx % PollEvery = 0
               THEN /\ \E k \in PollServed(outstanding) : \E j \in 0..k :
                           Serve(k, j)
                    /\ lastOp' = "poll"
               ELSE UNCHANGED <<broker, lastOp>>
    /\ UNCHANGED <<input, mainState, producer, counters, handed, enqueued,
                   flushed>>

\* if (idx + 1) % 10000 == 0: producer.flush().
PeriodicFlush ==
    /\ pc = "flush_check"
    /\ pc' = "loop"
    /\ IF idx % FlushEvery = 0
       THEN /\ \E k \in FlushServed(outstanding) : \E j \in 0..k :
                   Serve(k, j)
            /\ lastOp' = "flush"
       ELSE UNCHANGED <<broker, lastOp>>
    /\ UNCHANGED <<input, mainState, producer, counters, handed, enqueued,
                   rowErr, flushed>>

\* Variant of Handler that leaves the loop (break) instead of continuing.
HandlerBreaks ==
    /\ pc = "except"
    /\ failed' = failed + 1
    /\ \E k \in PollServed(outstanding) : \E j \in 0..k : Serve(k, j)
    /\ lastOp' = "poll"
    /\ pc' = "final_flush"
    /\ UNCHANGED <<input, mainState, producer, idx, successful, handed,
                   enqueued, rowErr, flushed>>

\* Variant of Handler that swallows the exception without counting it.
HandlerNoCount ==
    /\ pc = "except"
    /\ \E k \in PollServed(outstanding) : \E j \in 0..k : Serve(k, j)
    /\ lastOp' = "poll"
    /\ pc' = "loop"
    /\ UNCHANGED <<input, mainState, producer, counters, handed, enqueued,
                   rowErr, flushed>>

\* except Exception: failed += 1; producer.poll(0); continue.
Handler ==
    /\ pc = "except"
    /\ failed' = failed + 1
    /\ \E k \in PollServed(outstanding) : \E j \in 0..k : Serve(k, j)
    /\ lastOp' = "poll"
    /\ pc' = "loop"
    /\ UNCHANGED <<input, mainState, producer, idx, successful, handed,
                   enqueued, rowErr, flushed>>

\* Variant of FinalFlush that reports without flushing.
FinalFlushSkipped ==
    /\ pc = "final_flush"
    /\ pc' = "result"
    /\ UNCHANGED <<input, mainState, producer, counters, handed, enqueued,
                   broker, rowErr, lastOp, flushed>>

\* producer.flush() after the loop.
FinalFlush ==
    /\ pc = "final_flush"
    /\ \E k \in FlushServed(outstanding) : \E j \in 0..k : Serve(k, j)
    /\ flushed' = TRUE
    /\ pc' = "result"
    /\ UNCHANGED <<input, mainState, producer, counters, handed, enqueued,
                   rowErr, lastOp>>

\* if failed > 0: return False, else return True.
Result(f) == IF f > 0 THEN "False" ELSE "True"

Return ==
    /\ pc = "result"
    /\ result' = Result(failed)
    /\ pc' = "returned"
    /\ UNCHANGED <<input, exc, exitCode, dfRows, producer, counters, handed,
                   enqueued, broker, rowErr, lastOp, flushed>>

\* ---- main ----

\* sys.exit(0) / sys.exit(1) raise SystemExit inside main's try block.
MainExit ==
    /\ pc = "returned"
    /\ exc' = IF result = "True" THEN "SystemExit0" ELSE "SystemExit1"
    /\ pc' = "raised"
    /\ UNCHANGED <<input, exitCode, dfRows, producer, counters, handed,
                   enqueued, broker, rowErr, lastOp, flushed, result>>

\* Variant of Catches for a bare except / except BaseException.
CatchesBaseException(e) == e # "none"

\* The except clauses of main catch FileNotFoundError, ValueError and
\* Exception; SystemExit is a BaseException and passes through them.
Catches(e) == e \in {"FileNotFoundError", "ValueError", "Exception"}

MainExcept ==
    /\ pc = "raised"
    /\ exitCode' = IF Catches(exc) THEN 1
                   ELSE IF exc = "SystemExit0" THEN 0 ELSE 1
    /\ pc' = "exited"
    /\ UNCHANGED <<input, exc, dfRows, producer, counters, handed, enqueued,
                   broker, rowErr, lastOp, flushed, result>>

Next ==
    \/ LoadCsv
    \/ CreateProducer
    \/ NextRow
    \/ Encode
    \/ Produce
    \/ PeriodicPoll
    \/ PeriodicFlush
    \/ Handler
    \/ FinalFlush
    \/ Return
    \/ MainExit
    \/ MainExcept

Spec == Init /\ [][Next]_vars

\* ---- exceptions out of poll and flush ----
\* poll() and flush() raise what a callback raises.  The callback of line 93
\* cannot raise, so Spec lets them return normally.  SpecRaising lets each of
\* the four calls raise as well: inside the try block the row's handler runs,
\* outside it the exception leaves send_to_kafka and reaches main.

\* producer.poll(0) of line 100 raises.
PollRaises ==
    /\ pc = "poll_check"
    /\ ~labelIndex
    /\ idx % PollEvery = 0
    /\ rowErr' = "PollError"
    /\ lastOp' = "poll"
    /\ pc' = "except"
    /\ UNCHANGED <<input, mainState, producer, counters, handed, enqueued,
                   broker, flushed>>

\* producer.flush() of line 104 raises.
FlushRaises ==
    /\ pc = "flush_check"
    /\ idx % FlushEvery = 0
    /\ rowErr' = "FlushError"
    /\ lastOp' = "flush"
    /\ pc' = "except"
    /\ UNCHANGED <<input, mainState, producer, counters, handed, enqueued,
                   broker, flushed>>

\* producer.poll(0) of line 110 raises, after failed += 1.
HandlerPollRaises ==
    /\ pc = "except"
    /\ failed' = failed + 1
    /\ lastOp' = "poll"
    /\ exc' = "Exception"
    /\ pc' = "raised"
    /\ UNCHANGED <<input, exitCode, dfRows, result, producer, idx, successful,
                   handed, enqueued, broker, rowErr, flushed>>

\* producer.flush() of line 114 raises.
FinalFlushRaises ==
    /\ pc = "final_flush"
    /\ exc' = "Exception"
    /\ pc' = "raised"
    /\ UNCHANGED <<input, exitCode, dfRows, result, producer, counters, handed,
                   enqueued, broker, rowErr, lastOp, flushed>>

NextRaising ==
    \/ Next
    \/ PollRaises
    \/ FlushRaises
    \/ HandlerPollRaises
    \/ FinalFlushRaises

SpecRaising == Init /\ [][NextRaising]_vars

\* ---- claims ----

\* C1: when the run has passed its final flush, successful + failed equals
\* total_rows: every row is counted exactly once.
EveryRowCountedOnce == flushed => successful + failed = dfRows

\* C2: the exit code is 0 exactly when the file was loaded, the producer was
\* created, the final flush was reached and no row failed; it is 1 in every
\* other outcome, and a SystemExit(0) is never turned into exit code 1.
RunSucceeded ==
    /\ fileExists
    /\ malformedAt = 0
    /\ producer = "created"
    /\ flushed
    /\ failed = 0

ExitCodeReflectsRun ==
    /\ pc = "exited" => /\ exitCode \in {0, 1}
                        /\ exitCode = 0 <=> RunSucceeded
                        /\ exc = "SystemExit0" => exitCode = 0
    /\ pc # "exited" => exitCode = -1

ExitZeroReached ==
    /\ pc = "exited"
    /\ exc = "SystemExit0"
    /\ exitCode = 0
    /\ enqueued >= 2

\* C3: at the end of the run the rows counted successful are the messages the
\* broker acknowledged, and a delivery failure reported by the broker makes
\* the exit code 1.
SuccessfulEqualsAcknowledged ==
    /\ flushed => successful = ackOk
    /\ pc = "exited" /\ ackFail > 0 => exitCode = 1

\* C4: whenever send_to_kafka returns a result after the producer was
\* created, the final flush has completed and no message is outstanding.
ResultOnlyAfterFinalFlush ==
    result # "none" /\ producer = "created" => flushed /\ outstanding = 0

ReturnedFalseAfterFlush ==
    /\ result = "False"
    /\ producer = "created"
    /\ enqueued > 0
    /\ failed > 0
    /\ ackFail > 0

\* C5: successful + failed never exceeds the rows taken so far, and it
\* equals the rows taken only once the final flush has completed.
CountsCompleteOnlyAfterFlush ==
    /\ successful + failed <= idx
    /\ idx > 0 /\ successful + failed = idx => flushed

\* C6: a row whose encoding or produce raises is counted as failed and the
\* loop continues with the next row; rows are handed to produce at most once
\* and in DataFrame order; every row is attempted; a failed row makes the
\* result False without ending the run early.
HandedInOrder ==
    \A i, j \in 1..Len(handed) : i < j => handed[i] < handed[j]

RowFailureIsolated ==
    /\ [](/\ HandedInOrder
          /\ pc = "loop" => Len(handed) + failed >= idx
          /\ result # "none" /\ producer = "created" =>
                 /\ idx = dfRows
                 /\ failed > 0 => result = "False"
          /\ pc = "exited" /\ producer = "created" => result # "none")
    /\ [][pc = "except" =>
              /\ failed' = failed + 1
              /\ idx' = idx
              /\ pc' = "loop"]_vars

RowAfterFailedRowProduced ==
    /\ pc = "exited"
    /\ result = "False"
    /\ failed = 1
    /\ 1 \notin Range(handed)
    /\ 2 \in Range(handed)
    /\ rowErr = "none"

DrainScheduleByEnqueued ==
    /\ pc = "flush_check" => (lastOp = "poll" <=> enqueued % PollEvery = 0)
    /\ pc = "loop" /\ rowErr = "none" /\ enqueued > 0
          /\ enqueued % FlushEvery = 0 /\ lastOp # "none" =>
              lastOp = "flush" /\ outstanding = 0
    /\ pc = "loop" /\ rowErr # "none" => lastOp = "poll"

\* C10: when the file is missing or cannot be parsed, load_csv raises
\* FileNotFoundError or ValueError, the exit code is 1, send_to_kafka is never
\* entered and nothing is produced; a message is produced only after the whole
\* input was loaded.
SourceUnavailable == ~fileExists \/ malformedAt # 0

SourceUnavailableFailsFast ==
    /\ SourceUnavailable =>
          /\ pc \in {"load", "raised", "exited"}
          /\ producer = "none"
          /\ handed = <<>>
          /\ enqueued = 0
          /\ pc # "load" =>
                exc = IF fileExists THEN "ValueError" ELSE "FileNotFoundError"
          /\ pc = "exited" => exitCode = 1
    /\ producer # "none" \/ Len(handed) > 0 =>
          ~SourceUnavailable /\ dfRows = nRecords

MissingFileExited ==
    /\ pc = "exited"
    /\ ~fileExists
    /\ exitCode = 1

====
